---- MODULE Spec2Model ----
(***************************************************************************)
(* A model of the DER engine excerpt of rustcrypto-formats:                *)
(*   der/src/reader.rs          the Reader trait (cursor over a byte input) *)
(*   der/src/asn1/optional.rs   OPTIONAL as Option<T>: decode and der_cmp   *)
(*   der/src/asn1/utc_time.rs   UTCTime: construction, decode, encode       *)
(* Three specifications share the module: Spec (Reader and Option decode),  *)
(* SpecOrd (Option der_cmp) and SpecUtc (UtcTime).                          *)
(***************************************************************************)
EXTENDS Integers, Sequences, FiniteSets, TLC

VARIABLES input, position, contiguous, tset, buf, last,
          ordA, ordB, ordRes, ordRev,
          utcIn, utcVal, utcBytes, utcHlen, utcRes, utcOp, utcHist

readerVars == <<input, position, contiguous, tset, buf, last>>
ordVars == <<ordA, ordB, ordRes, ordRev>>
utcVars == <<utcIn, utcVal, utcBytes, utcHlen, utcRes, utcOp, utcHist>>
vars == <<input, position, contiguous, tset, buf, last,
          ordA, ordB, ordRes, ordRev, utcIn, utcVal, utcBytes, utcHlen, utcRes, utcOp, utcHist>>

(***************************************************************************)
(* Results: Rust's Result<T> with the value flattened to a sequence of      *)
(* naturals, and the error reduced to its ErrorKind.                        *)
(***************************************************************************)
Ok(v) == [kind |-> "Ok", err |-> "", val |-> v]
Err(k) == [kind |-> "Err", err |-> k, val |-> <<>>]
IsOk(r) == r.kind = "Ok"
IsErr(r) == r.kind = "Err"

\* Longest input the Reader specification draws.
MaxLen == 3
\* Largest length a read requests.
MaxReq == 3

\* The input alphabet of the Reader specification: 0x01 (BOOLEAN tag, length
\* 1), 0x02 (INTEGER tag, length 2), 0x1F (the high-tag-number escape: not a
\* one-octet tag), 0x81 (context-specific [1]; long-form length prefix).
ReaderBytes == {1, 2, 31, 129}

\* The sequences over S of length at most n.
SeqsUpTo(S, n) == UNION {[1..k -> S] : k \in 0..n}

\* The tag sets T claims (T::can_decode), one per instantiation of Option<T>.
TagSets == {{1}, {2}, {2, 129}}

(***************************************************************************)
(* Tag::try_from(u8): the identifier octet as a Tag (the tag is identified  *)
(* with its octet), or an error for an octet that is no one-octet tag.      *)
(***************************************************************************)
TagTryFrom(byte) ==
    IF byte % 32 = 31 THEN Err("TagNumberInvalid") ELSE Ok(<<byte>>)

(***************************************************************************)
(* Reader: the required methods, as the slice-backed Decoder provides them. *)
(***************************************************************************)
InputLen(inp) == Len(inp)

PeekByte(inp, pos) ==
    IF pos < Len(inp) THEN <<inp[pos + 1]>> ELSE <<>>

\* read_slice(len): [res, pos]
ReadSlice(inp, pos, contig, n) ==
    IF ~contig THEN [res |-> Err("Reader"), pos |-> pos]
    ELSE IF n > Len(inp) - pos THEN [res |-> Err("Incomplete"), pos |-> pos]
    ELSE [res |-> Ok(SubSeq(inp, pos + 1, pos + n)), pos |-> pos + n]

(***************************************************************************)
(* Reader: the provided (default) methods.                                  *)
(***************************************************************************)
SaturatingSub(a, b) == IF a >= b THEN a - b ELSE 0

RemainingLenOffByOne(inp, pos) == SaturatingSub(InputLen(inp), pos + 1)
RemainingLen(inp, pos) == SaturatingSub(InputLen(inp), pos)

IsFinished(inp, pos) == RemainingLen(inp, pos) = 0

\* b is what peek_byte gave.
PeekTagOf(b) ==
    IF b # <<>> THEN TagTryFrom(b[1]) ELSE Err("Incomplete")

PeekTag(inp, pos) == PeekTagOf(PeekByte(inp, pos))

\* A read_into that copies the octets there are before it reports that
\* there are too few.
ReadIntoPartial(inp, pos, contig, b) ==
    IF IsErr(ReadSlice(inp, pos, contig, Len(b)).res)
    THEN [res |-> ReadSlice(inp, pos, contig, Len(b)).res, pos |-> pos,
          buf |-> [i \in 1..Len(b) |-> IF pos + i <= Len(inp) THEN inp[pos + i] ELSE b[i]]]
    ELSE [res |-> ReadSlice(inp, pos, contig, Len(b)).res, pos |-> pos + Len(b),
          buf |-> ReadSlice(inp, pos, contig, Len(b)).res.val]

\* read_into(buf): [res, pos, buf]. r is what read_slice(buf.len()) gave.
ReadIntoOf(r, b) ==
    IF IsErr(r.res)
    THEN [res |-> r.res, pos |-> r.pos, buf |-> b]
    ELSE [res |-> Ok(r.res.val), pos |-> r.pos, buf |-> r.res.val]

ReadInto(inp, pos, contig, b) == ReadIntoOf(ReadSlice(inp, pos, contig, Len(b)), b)

\* read_byte(): [res, pos]. r is what read_into(&mut [0]) gave.
ReadByteOf(r) ==
    IF IsErr(r.res)
    THEN [res |-> r.res, pos |-> r.pos]
    ELSE [res |-> Ok(<<r.buf[1]>>), pos |-> r.pos]

ReadByte(inp, pos, contig) == ReadByteOf(ReadInto(inp, pos, contig, <<0>>))

(***************************************************************************)
(* Header::decode on a reader: the identifier octet, then the DER length    *)
(* (short form below 0x80; long form 0x81..0x84 in the minimal number of    *)
(* octets; the indefinite form 0x80 is rejected). [res, pos], the header    *)
(* as <<tag, length>>.                                                      *)
(***************************************************************************)
RECURSIVE BigEndian(_)
BigEndian(bytes) ==
    IF bytes = <<>> THEN 0
    ELSE 256 * BigEndian(SubSeq(bytes, 1, Len(bytes) - 1)) + bytes[Len(bytes)]

\* The least value whose minimal long form takes n length octets.
MinLongForm(n) == IF n = 1 THEN 128 ELSE 256 ^ (n - 1)

\* The long form: rest is what reading the n length octets gave.
LongForm(rest, n) ==
    IF IsErr(rest.res) THEN rest
    ELSE IF BigEndian(rest.res.val) >= MinLongForm(n)
    THEN [res |-> Ok(<<BigEndian(rest.res.val)>>), pos |-> rest.pos]
    ELSE [res |-> Err("Overlength"), pos |-> rest.pos]

\* first is what reading the initial length octet gave.
LengthOf(inp, contig, first) ==
    IF IsErr(first.res) THEN first
    ELSE IF first.res.val[1] < 128 THEN first
    ELSE IF first.res.val[1] = 128
    THEN [res |-> Err("IndefiniteLength"), pos |-> first.pos]
    ELSE IF first.res.val[1] <= 132
    THEN LongForm(ReadSlice(inp, first.pos, contig, first.res.val[1] - 128),
                  first.res.val[1] - 128)
    ELSE [res |-> Err("Overlength"), pos |-> first.pos]

LengthDecode(inp, pos, contig) == LengthOf(inp, contig, ReadByte(inp, pos, contig))

\* The header of a tag and what decoding the length gave.
HeaderOf(tag, ln) ==
    IF IsErr(ln.res) THEN ln
    ELSE [res |-> Ok(<<tag, ln.res.val[1]>>), pos |-> ln.pos]

\* tb is what reading the identifier octet gave.
HeaderFrom(inp, contig, tb) ==
    IF IsErr(tb.res) THEN tb
    ELSE IF IsErr(TagTryFrom(tb.res.val[1]))
    THEN [res |-> TagTryFrom(tb.res.val[1]), pos |-> tb.pos]
    ELSE HeaderOf(tb.res.val[1], LengthDecode(inp, tb.pos, contig))

HeaderDecode(inp, pos, contig) == HeaderFrom(inp, contig, ReadByte(inp, pos, contig))

\* peek_header(): Header::decode on a clone of the reader; the reader itself
\* is not touched.
PeekHeader(inp, pos, contig) == HeaderDecode(inp, pos, contig).res

(***************************************************************************)
(* T: a Choice type claiming the tags of ts. T::can_decode is membership;   *)
(* T::decode reads a header, checks its tag and takes the content octets.   *)
(***************************************************************************)
CanDecode(ts, tag) == tag \in ts

\* h is what Header::decode gave.
TDecodeOf(ts, inp, contig, h) ==
    IF IsErr(h.res) THEN h
    ELSE IF ~CanDecode(ts, h.res.val[1])
    THEN [res |-> Err("TagUnexpected"), pos |-> h.pos]
    ELSE ReadSlice(inp, h.pos, contig, h.res.val[2])

TDecode(ts, inp, pos, contig) == TDecodeOf(ts, inp, contig, HeaderDecode(inp, pos, contig))

(***************************************************************************)
(* impl Decode for Option<T>: [res, pos, some, invoked]. some tells         *)
(* Ok(Some(v)) from Ok(None); invoked tells whether T::decode was called.   *)
(***************************************************************************)
\* T::decode(decoder).map(Some)
MapSome(d) == [res |-> d.res, pos |-> d.pos, some |-> IsOk(d.res), invoked |-> TRUE]

Absent(pos) == [res |-> Ok(<<>>), pos |-> pos, some |-> FALSE, invoked |-> FALSE]

Failed(res, pos) == [res |-> res, pos |-> pos, some |-> FALSE, invoked |-> FALSE]

\* A decode that takes the octet with read_byte where the code peeks.
OptionDecodeConsuming(ts, inp, pos, contig) ==
    IF PeekByte(inp, pos) = <<>> THEN Absent(pos)
    ELSE IF IsErr(TagTryFrom(PeekByte(inp, pos)[1]))
    THEN Failed(TagTryFrom(PeekByte(inp, pos)[1]), pos + 1)
    ELSE IF CanDecode(ts, PeekByte(inp, pos)[1])
    THEN MapSome(TDecode(ts, inp, pos, contig))
    ELSE Absent(pos + 1)

\* A decode that reports a tag T does not claim as an error.
OptionDecodeStrict(ts, inp, pos, contig) ==
    IF PeekByte(inp, pos) = <<>> THEN Absent(pos)
    ELSE IF IsErr(TagTryFrom(PeekByte(inp, pos)[1]))
    THEN Failed(TagTryFrom(PeekByte(inp, pos)[1]), pos)
    ELSE IF CanDecode(ts, PeekByte(inp, pos)[1])
    THEN MapSome(TDecode(ts, inp, pos, contig))
    ELSE Failed(Err("TagUnexpected"), pos)

OptionDecode(ts, inp, pos, contig) ==
    IF PeekByte(inp, pos) = <<>> THEN Absent(pos)
    ELSE IF IsErr(TagTryFrom(PeekByte(inp, pos)[1]))
    THEN Failed(TagTryFrom(PeekByte(inp, pos)[1]), pos)
    ELSE IF CanDecode(ts, PeekByte(inp, pos)[1])
    THEN MapSome(TDecode(ts, inp, pos, contig))
    ELSE Absent(pos)

(***************************************************************************)
(* The Reader specification: a reader over a drawn input, and the calls a   *)
(* decoder makes on it. last records the latest call: its name, the cursor  *)
(* before it, the length it asked for, the caller's buffer before it, and   *)
(* its result.                                                              *)
(***************************************************************************)
Zeros(n) == [i \in 1..n |-> 0]

Call(op, req, bufBefore, res, some, invoked) ==
    [op |-> op, before |-> position, req |-> req, bufBefore |-> bufBefore,
     res |-> res, some |-> some, invoked |-> invoked]

OrdIdle ==
    /\ ordA = [some |-> FALSE, val |-> 0]
    /\ ordB = [some |-> FALSE, val |-> 0]
    /\ ordRes = Ok(<<>>)
    /\ ordRev = Ok(<<>>)

UtcIdle ==
    /\ utcIn = <<>>
    /\ utcVal = <<>>
    /\ utcBytes = <<>>
    /\ utcHlen = 0
    /\ utcRes = Ok(<<>>)
    /\ utcOp = "init"
    /\ utcHist = [op |-> "init", ok |-> FALSE, bytes |-> <<>>, hlen |-> 0, val |-> <<>>]

ReaderIdle ==
    /\ input = <<>>
    /\ position = 0
    /\ contiguous = TRUE
    /\ tset = {}
    /\ buf = <<>>
    /\ last = [op |-> "init", before |-> 0, req |-> 0, bufBefore |-> <<>>,
               res |-> Ok(<<>>), some |-> FALSE, invoked |-> FALSE]

Init ==
    /\ input \in SeqsUpTo(ReaderBytes, MaxLen)
    /\ position = 0
    /\ contiguous \in BOOLEAN
    /\ tset \in TagSets
    /\ buf = <<>>
    /\ last = [op |-> "init", before |-> 0, req |-> 0, bufBefore |-> <<>>,
               res |-> Ok(<<>>), some |-> FALSE, invoked |-> FALSE]
    /\ OrdIdle
    /\ UtcIdle

\* A call that leaves the cursor alone.
Peeked(op, res) ==
    /\ last' = Call(op, 0, buf, res, FALSE, FALSE)
    /\ UNCHANGED <<input, position, contiguous, tset, buf, ordVars, utcVars>>

\* A call that may move the cursor: r is [res, pos].
Moved(op, req, r) ==
    /\ position' = r.pos
    /\ last' = Call(op, req, buf, r.res, FALSE, FALSE)
    /\ UNCHANGED <<input, contiguous, tset, buf, ordVars, utcVars>>

\* read_into on a caller's buffer b: r is [res, pos, buf].
Filled(b, r) ==
    /\ position' = r.pos
    /\ buf' = r.buf
    /\ last' = Call("read_into", Len(b), b, r.res, FALSE, FALSE)
    /\ UNCHANGED <<input, contiguous, tset, ordVars, utcVars>>

\* Option<T>::decode: r is [res, pos, some, invoked].
Decoded(r) ==
    /\ position' = r.pos
    /\ last' = Call("option_decode", 0, buf, r.res, r.some, r.invoked)
    /\ UNCHANGED <<input, contiguous, tset, buf, ordVars, utcVars>>

DoPeekByte == Peeked("peek_byte", Ok(PeekByte(input, position)))

DoPeekTag == Peeked("peek_tag", PeekTag(input, position))

DoPeekHeader == Peeked("peek_header", PeekHeader(input, position, contiguous))

DoReadSlice ==
    \E n \in 0..MaxReq : Moved("read_slice", n, ReadSlice(input, position, contiguous, n))

DoReadInto ==
    \E n \in 0..MaxReq : Filled(Zeros(n), ReadInto(input, position, contiguous, Zeros(n)))

DoReadByte == Moved("read_byte", 1, ReadByte(input, position, contiguous))

DoOptionDecode == Decoded(OptionDecode(tset, input, position, contiguous))

Next ==
    \/ DoPeekByte
    \/ DoPeekTag
    \/ DoPeekHeader
    \/ DoReadSlice
    \/ DoReadInto
    \/ DoReadByte
    \/ DoOptionDecode

Spec == Init /\ [][Next]_vars

(***************************************************************************)
(* Properties of the Reader specification.                                  *)
(***************************************************************************)
\* The octet the latest call found under the cursor, as peek_byte gives it.
NextByte == PeekByte(input, last.before)

Exhausted == NextByte = <<>>

\* The octet under the cursor is a tag that T does not claim.
Unclaimed ==
    /\ NextByte # <<>>
    /\ IsOk(TagTryFrom(NextByte[1]))
    /\ ~CanDecode(tset, TagTryFrom(NextByte[1]).val[1])

\* The octet under the cursor is a tag that T claims.
Claimed ==
    /\ NextByte # <<>>
    /\ IsOk(TagTryFrom(NextByte[1]))
    /\ CanDecode(tset, TagTryFrom(NextByte[1]).val[1])

\* The octet under the cursor is no tag.
Untagged ==
    /\ NextByte # <<>>
    /\ IsErr(TagTryFrom(NextByte[1]))

IsAbsent == last.res = Ok(<<>>) /\ ~last.some

\* C1: when the input is exhausted or the next octet is a tag T does not
\* claim, Option<T>::decode gives Ok(None) and the cursor stays where it was.
C1_AbsentLeavesCursor ==
    (last.op = "option_decode" /\ (Exhausted \/ Unclaimed))
        => (IsAbsent /\ position = last.before)

C1_Witness ==
    /\ last.op = "option_decode"
    /\ Unclaimed
    /\ last.before > 0
    /\ IsAbsent

\* C2 as stated: Option<T>::decode fails only when T::decode was called
\* (the tag was claimed) and failed; for every other next octet, whatever
\* its value, the result is Ok(None).
C2_Original ==
    last.op = "option_decode" =>
        /\ IsErr(last.res) => (last.invoked /\ Claimed)
        /\ ~Claimed => IsAbsent

\* C2 as amended: Option<T>::decode fails only when the peeked octet is not
\* a tag (the error of Tag::try_from) or when T::decode was called on a
\* claimed tag and failed (the error of T::decode); when the input is
\* exhausted or the octet is a tag T does not claim the result is Ok(None).
C2_Amended ==
    last.op = "option_decode" =>
        /\ IsErr(last.res) =>
              \/ Untagged /\ ~last.invoked /\ last.res = TagTryFrom(NextByte[1])
              \/ /\ Claimed
                 /\ last.invoked
                 /\ last.res = TDecode(tset, input, last.before, contiguous).res
        /\ Untagged => IsErr(last.res)
        /\ (Exhausted \/ Unclaimed) => IsAbsent
        /\ last.invoked <=> Claimed

C2_Witness ==
    /\ last.op = "option_decode"
    /\ Untagged
    /\ IsErr(last.res)
    /\ ~last.invoked

IsRead == last.op \in {"read_slice", "read_into", "read_byte"}

\* C8: read_slice(n), read_into(buf) and read_byte either succeed, give
\* exactly the octets asked for and advance the cursor by their number, or
\* fail (Incomplete when fewer octets remain, on a reader that can lend
\* slices) and leave the cursor and the caller's buffer as they were.
C8_ReadsAtomic ==
    IsRead =>
        \/ /\ IsOk(last.res)
           /\ position = last.before + last.req
           /\ last.res.val = SubSeq(input, last.before + 1, last.before + last.req)
           /\ last.op = "read_into" => buf = last.res.val
        \/ /\ IsErr(last.res)
           /\ position = last.before
           /\ buf = last.bufBefore
           /\ contiguous =>
                 /\ last.res = Err("Incomplete")
                 /\ last.req > InputLen(input) - last.before

C8_Witness ==
    /\ last.op = "read_into"
    /\ IsErr(last.res)
    /\ contiguous
    /\ last.before > 0
    /\ last.before < InputLen(input)
    /\ buf = last.bufBefore

IsPeek == last.op \in {"peek_byte", "peek_tag", "peek_header"}

\* C9: after any calls, failed ones included, position() <= input_len(),
\* remaining_len() = input_len() - position(), is_finished() holds exactly
\* when position() = input_len(), and a peek leaves position() alone.
C9_CursorInvariant ==
    /\ position <= InputLen(input)
    /\ RemainingLen(input, position) = InputLen(input) - position
    /\ IsFinished(input, position) <=> (position = InputLen(input))
    /\ IsPeek => position = last.before

C9_Witness ==
    /\ last.op = "peek_header"
    /\ IsOk(last.res)
    /\ position > 0
    /\ ~IsFinished(input, position)

(***************************************************************************)
(* impl DerOrd for Option<T>. An Option<T> is [some, val]; T is a type      *)
(* whose values 1..MaxOrdVal encode as the one octet <<v>> and compare by   *)
(* it, and whose value 0 stands for a value the comparison of which fails.  *)
(***************************************************************************)
\* Largest value of T drawn.
MaxOrdVal == 9

None == [some |-> FALSE, val |-> 0]
Some(v) == [some |-> TRUE, val |-> v]
OptVals == {None} \cup {Some(v) : v \in 0..MaxOrdVal}

\* T's own comparator.
TDerCmp(a, b) ==
    IF a = 0 \/ b = 0 THEN Err("Length")
    ELSE IF a < b THEN Ok(<<"Less">>)
    ELSE IF a > b THEN Ok(<<"Greater">>)
    ELSE Ok(<<"Equal">>)

\* The DER encoding of an Option<T>: nothing for None, T's for Some.
OptEncoding(o) == IF o.some THEN <<o.val>> ELSE <<>>

\* A comparator with the two mixed arms exchanged.
OptionDerCmpSwapped(self, other) ==
    IF self.some
    THEN IF other.some THEN TDerCmp(self.val, other.val) ELSE Ok(<<"Less">>)
    ELSE Ok(<<"Greater">>)

OptionDerCmp(self, other) ==
    IF self.some
    THEN IF other.some THEN TDerCmp(self.val, other.val) ELSE Ok(<<"Greater">>)
    ELSE Ok(<<"Less">>)

\* A caller compares a with b and b with a.
DoDerCmp ==
    \E a \in OptVals, b \in OptVals :
        /\ ordA' = a
        /\ ordB' = b
        /\ ordRes' = OptionDerCmp(a, b)
        /\ ordRev' = OptionDerCmp(b, a)
        /\ UNCHANGED <<readerVars, utcVars>>

InitOrd == ReaderIdle /\ OrdIdle /\ UtcIdle

NextOrd == DoDerCmp

SpecOrd == InitOrd /\ [][NextOrd]_vars

OrdActed == ordRes # Ok(<<>>)

\* C3: None against Some(_) is Ok(Less), Some(_) against None is
\* Ok(Greater), and Some(a) against Some(b) is what T's a.der_cmp(b) gives,
\* ordering or error.
C3_DerCmpArms ==
    OrdActed =>
        /\ (~ordA.some /\ ordB.some) => ordRes = Ok(<<"Less">>)
        /\ (ordA.some /\ ~ordB.some) => ordRes = Ok(<<"Greater">>)
        /\ (ordA.some /\ ordB.some) => ordRes = TDerCmp(ordA.val, ordB.val)

C3_Witness ==
    /\ OrdActed
    /\ ordA.some
    /\ ~ordB.some
    /\ ordRes = Ok(<<"Greater">>)
    /\ ordRev = Ok(<<"Less">>)

Reverse(o) ==
    IF o = <<"Less">> THEN <<"Greater">>
    ELSE IF o = <<"Greater">> THEN <<"Less">>
    ELSE o

\* C10: where der_cmp succeeds both ways, der_cmp(b, a) is the reverse of
\* der_cmp(a, b), and der_cmp(a, b) is Equal exactly when a and b have the
\* same encoding; so der_cmp(None, None) is Ok(Equal).
C10_StrictOrdering ==
    (OrdActed /\ IsOk(ordRes) /\ IsOk(ordRev)) =>
        /\ ordRev.val = Reverse(ordRes.val)
        /\ (ordRes.val = <<"Equal">>) <=> (OptEncoding(ordA) = OptEncoding(ordB))

(***************************************************************************)
(* DateTime (der/src/datetime.rs): a date and time as                       *)
(* <<year, month, day, hour, minutes, seconds>>. A core::time::Duration     *)
(* since UNIX_EPOCH is unsigned; its whole seconds are kept as              *)
(* <<days, seconds of the day>>, that is 86400 * days + seconds.            *)
(***************************************************************************)
\* Maximum year that can be represented as a UTCTime.
MAX_YEAR == 2049

\* Minimum year of a DateTime: the year of UNIX_EPOCH, before which no
\* unsigned duration since the epoch exists.
MIN_YEAR == 1970

Year(dt) == dt[1]

IsLeapYear(y) == y % 4 = 0 /\ (y % 100 # 0 \/ y % 400 = 0)

DaysInMonth(y, m) ==
    IF m = 2 THEN (IF IsLeapYear(y) THEN 29 ELSE 28)
    ELSE IF m \in {4, 6, 9, 11} THEN 30
    ELSE 31

\* Days of a common year before month m.
DaysBeforeMonth(m) == <<0, 31, 59, 90, 120, 151, 181, 212, 243, 273, 304, 334>>[m]

\* Leap years from 1970 up to, not including, year y.
LeapYearsBefore(y) ==
    (((y - 1) - 1968) \div 4) - (((y - 1) - 1900) \div 100) + (((y - 1) - 1600) \div 400)

\* Days from UNIX_EPOCH to the date.
DaysSinceEpoch(y, m, d) ==
    (y - 1970) * 365 + LeapYearsBefore(y) + DaysBeforeMonth(m) + (d - 1)
        + (IF IsLeapYear(y) /\ m > 2 THEN 1 ELSE 0)

\* DateTime::new
DateTimeNew(y, m, d, h, mi, s) ==
    IF \/ y < MIN_YEAR
       \/ m \notin 1..12
       \/ d \notin 1..31
       \/ h \notin 0..23
       \/ mi \notin 0..59
       \/ s \notin 0..59
    THEN Err("DateTime")
    ELSE IF d > DaysInMonth(y, m) THEN Err("DateTime")
    ELSE IF y > 9999 THEN Err("DateTime")
    ELSE Ok(<<y, m, d, h, mi, s>>)

\* DateTime::unix_duration
UnixDuration(dt) ==
    <<DaysSinceEpoch(dt[1], dt[2], dt[3]), dt[4] * 3600 + dt[5] * 60 + dt[6]>>

\* The civil date of a day of a 400-year era (eras start on 1 March), from
\* the era, the year of the era and the day of that year.
CivilOfMonth(y, doy, mp) ==
    <<IF mp < 10 THEN y ELSE y + 1,
      IF mp < 10 THEN mp + 3 ELSE mp - 9,
      doy - ((153 * mp + 2) \div 5) + 1>>

CivilOfYear(era, yoe, doe) ==
    CivilOfMonth(yoe + era * 400,
                 doe - (365 * yoe + (yoe \div 4) - (yoe \div 100)),
                 (5 * (doe - (365 * yoe + (yoe \div 4) - (yoe \div 100))) + 2) \div 153)

CivilOfEra(era, doe) ==
    CivilOfYear(era,
                (doe - (doe \div 1460) + (doe \div 36524) - (doe \div 146096)) \div 365,
                doe)

\* The date days after UNIX_EPOCH, as <<year, month, day>>.
CivilFromDays(days) ==
    CivilOfEra((days + 719468) \div 146097, (days + 719468) % 146097)

DateTimeOf(date, sod) ==
    <<date[1], date[2], date[3], sod \div 3600, (sod % 3600) \div 60, sod % 60>>

\* DateTime::from_unix_duration: fails beyond 9999-12-31T23:59:59Z.
DateTimeFromUnixDuration(dur) ==
    IF dur[1] > 2932896 THEN Err("DateTime")
    ELSE Ok(DateTimeOf(CivilFromDays(dur[1]), dur[2]))

\* datetime::decode_decimal(tag, hi, lo): two ASCII digits as a number.
DecodeDecimal(hi, lo) ==
    IF hi \in 48..57 /\ lo \in 48..57
    THEN Ok(<<(hi - 48) * 10 + (lo - 48)>>)
    ELSE Err("Value(UtcTime)")

\* datetime::encode_decimal(writer, tag, value): a number below 100 as two
\* ASCII digits.
EncodeDecimal(value) ==
    IF value \div 10 >= 10 THEN Err("Value(UtcTime)")
    ELSE Ok(<<48 + (value \div 10), 48 + (value % 10)>>)

(***************************************************************************)
(* UtcTime (der/src/asn1/utc_time.rs): a DateTime of a year up to MAX_YEAR. *)
(***************************************************************************)
\* b'Z'
AsciiZ == 90

\* UtcTime::LENGTH
UtcLENGTH == 13

\* A constructor that turns MAX_YEAR itself away.
UtcFromDateTimeStrict(datetime) ==
    IF Year(datetime) < MAX_YEAR THEN Ok(datetime) ELSE Err("Value(UtcTime)")

\* UtcTime::from_date_time
UtcFromDateTime(datetime) ==
    IF Year(datetime) <= MAX_YEAR THEN Ok(datetime) ELSE Err("Value(UtcTime)")

\* impl TryFrom<DateTime> for UtcTime, and for &DateTime
UtcTryFrom(datetime) == UtcFromDateTime(datetime)

\* dt is what DateTime::from_unix_duration gave: dt?.try_into()
UtcTryInto(dt) == IF IsErr(dt) THEN dt ELSE UtcTryFrom(dt.val)

\* UtcTime::from_unix_duration
UtcFromUnixDuration(dur) == UtcTryInto(DateTimeFromUnixDuration(dur))

\* The first error among the results rs, or no error.
FirstErr(rs) ==
    IF \E i \in 1..Len(rs) : IsErr(rs[i])
    THEN rs[CHOOSE i \in 1..Len(rs) : IsErr(rs[i]) /\ \A j \in 1..(i - 1) : IsOk(rs[j])]
    ELSE Ok(<<>>)

\* RFC 5280 rules for interpreting the year
PivotYear(yy) == IF yy >= 50 THEN yy + 1900 ELSE yy + 2000

\* dt is what DateTime::new gave:
\* .map_err(value_error).and_then(|dt| from_unix_duration(dt.unix_duration()))
UtcAndThen(dt) ==
    IF IsErr(dt) THEN Err("Value(UtcTime)")
    ELSE UtcFromUnixDuration(UnixDuration(dt.val))

\* The six fields, each what decode_decimal gave.
UtcOfFields(f) ==
    IF IsErr(FirstErr(f)) THEN FirstErr(f)
    ELSE UtcAndThen(DateTimeNew(PivotYear(f[1].val[1]), f[2].val[1], f[3].val[1],
                                f[4].val[1], f[5].val[1], f[6].val[1]))

UtcFields(b) == [i \in 1..6 |-> DecodeDecimal(b[2 * i - 1], b[2 * i])]

\* A match that takes any thirteenth octet for the Z.
UtcMatchAnyZone(b) ==
    IF Len(b) = UtcLENGTH THEN UtcOfFields(UtcFields(b)) ELSE Err("Value(UtcTime)")

\* The match of decode_value on the content octets.
UtcMatch(b) ==
    IF Len(b) = UtcLENGTH /\ b[UtcLENGTH] = AsciiZ
    THEN UtcOfFields(UtcFields(b))
    ELSE Err("Value(UtcTime)")

\* slice is what ByteSlice::decode_value gave.
UtcOfSlice(slice) == IF IsErr(slice) THEN slice ELSE UtcMatch(slice.val)

\* impl DecodeValue for UtcTime: the content is the header's length of
\* octets of the input.
UtcDecodeValue(inp, hlen) == UtcOfSlice(ReadSlice(inp, 0, TRUE, hlen).res)

\* The year arm of encode_value: the two-digit year as a u8.
EncodeYearNoPivot(y) ==
    IF y \in 1950..2049 THEN Ok(<<y - 1900>>)
    ELSE Err("Value(UtcTime)")

EncodeYear(y) ==
    IF y \in 1950..1999 THEN Ok(<<y - 1900>>)
    ELSE IF y \in 2000..2049 THEN Ok(<<y - 2000>>)
    ELSE Err("Value(UtcTime)")

\* The writes of encode_value after the year, each what encode_decimal gave.
UtcWritten(w) ==
    IF IsErr(FirstErr(w)) THEN FirstErr(w)
    ELSE Ok(w[1].val \o w[2].val \o w[3].val \o w[4].val \o w[5].val \o w[6].val
            \o <<AsciiZ>>)

\* year is what the year arm gave.
UtcEncodeFields(year, dt) ==
    IF IsErr(year) THEN year
    ELSE UtcWritten([i \in 1..6 |->
                        IF i = 1 THEN EncodeDecimal(year.val[1]) ELSE EncodeDecimal(dt[i])])

\* impl EncodeValue for UtcTime
UtcValueLen == UtcLENGTH

UtcEncodeValue(dt) == UtcEncodeFields(EncodeYear(Year(dt)), dt)

(***************************************************************************)
(* The UtcTime specification. A caller holds either content octets under a *)
(* header of length utcHlen, or a DateTime utcIn; it decodes the octets,    *)
(* constructs from the DateTime or from its Unix duration, and encodes the  *)
(* UtcTime it holds (utcVal) into the buffer. utcHist is the state the      *)
(* latest call found.                                                       *)
(***************************************************************************)
Digits2(n) == <<48 + (n \div 10), 48 + (n % 10)>>

\* Two-digit fields drawn for the content: in range, out of range, and the
\* two sides of the year pivot.
FieldYears == {0, 38, 49, 50, 69, 70, 91, 99}
FieldMonths == {0, 1, 2, 5, 12, 13}
FieldDays == {0, 1, 6, 29, 30, 31, 32}
FieldHours == {23, 24}
FieldMinutes == {45, 60}
FieldSeconds == {40, 60}

DigitContents ==
    {Digits2(yy) \o Digits2(mo) \o Digits2(dd) \o Digits2(hh) \o Digits2(mi)
        \o Digits2(ss) \o <<AsciiZ>> :
        yy \in FieldYears, mo \in FieldMonths, dd \in FieldDays,
        hh \in FieldHours, mi \in FieldMinutes, ss \in FieldSeconds}

\* 910506234540Z, the content of the round-trip vector.
VectorContent == <<57, 49, 48, 53, 48, 54, 50, 51, 52, 53, 52, 48, 90>>

\* The vector with one octet replaced by '/', ':', ' ', 'Z' or 'z'; cut
\* short; with an octet too many; and without its Z.
DamagedContents ==
    {[VectorContent EXCEPT ![i] = b] : i \in 1..13, b \in {47, 58, 32, 90, 122}}
        \cup {<<>>, SubSeq(VectorContent, 1, 12), VectorContent \o <<AsciiZ>>,
              <<48>> \o VectorContent, SubSeq(VectorContent, 1, 12) \o <<48>>}

DecodeInputs == DigitContents \cup DamagedContents

HeaderLengths(b) == {n \in {Len(b) - 1, Len(b), Len(b) + 1} : n >= 0}

SampleYears == {1970, 1991, 2000, 2038, 2049, 2050, 9999}

\* The DateTime values drawn: those DateTime::new makes of the samples.
ValidDateTimes ==
    {dt \in {<<y, m, d, h, mi, s>> :
                y \in SampleYears, m \in {1, 2, 5, 12}, d \in {1, 6, 29, 31},
                h \in {0, 23}, mi \in {0, 45}, s \in {40, 59}} :
        IsOk(DateTimeNew(dt[1], dt[2], dt[3], dt[4], dt[5], dt[6]))}

InitUtc ==
    /\ ReaderIdle
    /\ OrdIdle
    /\ \/ /\ utcIn = <<>>
          /\ utcBytes \in DecodeInputs
          /\ utcHlen \in HeaderLengths(utcBytes)
       \/ /\ utcIn \in ValidDateTimes
          /\ utcBytes = <<>>
          /\ utcHlen = 0
    /\ utcVal = <<>>
    /\ utcRes = Ok(<<>>)
    /\ utcOp = "init"
    /\ utcHist = [op |-> "init", ok |-> FALSE, bytes |-> <<>>, hlen |-> 0, val |-> <<>>]

\* What every call does to the record of calls.
UtcCalled(op, res) ==
    /\ utcOp' = op
    /\ utcRes' = res
    /\ utcHist' = [op |-> utcOp, ok |-> IsOk(utcRes), bytes |-> utcBytes,
                   hlen |-> utcHlen, val |-> utcVal]

\* A call that gives a UtcTime or fails.
UtcMade(op, res) ==
    /\ UtcCalled(op, res)
    /\ utcVal' = IF IsOk(res) THEN res.val ELSE <<>>
    /\ UNCHANGED <<utcIn, utcBytes, utcHlen, readerVars, ordVars>>

\* encode_value: the content lands in the buffer, under a header of
\* value_len() octets.
UtcEncoded(res) ==
    /\ UtcCalled("encode", res)
    /\ utcBytes' = IF IsOk(res) THEN res.val ELSE utcBytes
    /\ utcHlen' = IF IsOk(res) THEN UtcValueLen ELSE utcHlen
    /\ UNCHANGED <<utcIn, utcVal, readerVars, ordVars>>

DoFromDateTime ==
    /\ utcIn # <<>>
    /\ UtcMade("from_date_time", UtcFromDateTime(utcIn))

DoTryFrom ==
    /\ utcIn # <<>>
    /\ UtcMade("try_from", UtcTryFrom(utcIn))

DoFromUnixDuration ==
    /\ utcIn # <<>>
    /\ UtcMade("from_unix_duration", UtcFromUnixDuration(UnixDuration(utcIn)))

DoDecodeValue ==
    /\ utcIn = <<>> \/ utcOp = "encode"
    /\ UtcMade("decode", UtcDecodeValue(utcBytes, utcHlen))

DoEncodeValue ==
    /\ utcVal # <<>>
    /\ UtcEncoded(UtcEncodeValue(utcVal))

NextUtc ==
    \/ DoFromDateTime
    \/ DoTryFrom
    \/ DoFromUnixDuration
    \/ DoDecodeValue
    \/ DoEncodeValue

SpecUtc == InitUtc /\ [][NextUtc]_vars

(***************************************************************************)
(* Properties of the UtcTime specification.                                 *)
(***************************************************************************)
\* The content octets the latest decode was given, when the input holds as
\* many as the header says.
HasContent == utcHlen <= Len(utcBytes)

Content == SubSeq(utcBytes, 1, utcHlen)

AllDigits(b) == \A i \in 1..12 : b[i] \in 48..57

Field(b, i) == (b[2 * i - 1] - 48) * 10 + (b[2 * i] - 48)

\* C4: a UtcTime of a year in [1950, 2049] encodes, to 13 content octets;
\* decoding what encode wrote gives the value encoded; encoding a decoded
\* value gives the octets decoded; the vector 910506234540Z decodes to
\* 673573540 seconds since the epoch.
C4_RoundTrip ==
    /\ (utcOp = "encode" /\ Year(utcVal) \in 1950..2049) =>
          (IsOk(utcRes) /\ Len(utcRes.val) = 13 /\ utcBytes = utcRes.val)
    /\ (utcOp = "decode" /\ utcHist.op = "encode" /\ utcHist.ok) =>
          utcRes = Ok(utcHist.val)
    /\ (utcOp = "encode" /\ utcHist.op = "decode" /\ utcHist.ok) =>
          utcRes = Ok(SubSeq(utcHist.bytes, 1, utcHist.hlen))
    /\ (utcOp = "decode" /\ HasContent /\ Content = VectorContent) =>
          /\ IsOk(utcRes)
          /\ 86400 * UnixDuration(utcRes.val)[1] + UnixDuration(utcRes.val)[2] = 673573540

C4_Witness ==
    /\ utcOp = "decode"
    /\ utcHist.op = "encode"
    /\ utcHist.ok
    /\ utcIn # <<>>
    /\ utcRes = Ok(utcIn)
    /\ Year(utcIn) = 2049

\* The content is YYMMDDHHMMSSZ, all digits, and apart from the year names
\* a date and a time of day that exist.
OtherwiseValid(b) ==
    /\ Len(b) = 13
    /\ b[13] = 90
    /\ AllDigits(b)
    /\ Field(b, 2) \in 1..12
    /\ Field(b, 3) >= 1
    /\ Field(b, 3) <= DaysInMonth((IF Field(b, 1) >= 50 THEN 1900 ELSE 2000) + Field(b, 1),
                                  Field(b, 2))
    /\ Field(b, 4) <= 23
    /\ Field(b, 5) <= 59
    /\ Field(b, 6) <= 59

\* C5: an otherwise valid content decodes, on both sides of the pivot, to
\* the year 1900 + YY when YY >= 50 and 2000 + YY when YY < 50: YY = 49 to
\* 2049 and YY = 50 to 1950.
C5_YearPivot ==
    (utcOp = "decode" /\ HasContent /\ OtherwiseValid(Content)) =>
        /\ IsOk(utcRes)
        /\ Year(utcRes.val) =
              (IF Field(Content, 1) >= 50 THEN 1900 ELSE 2000) + Field(Content, 1)

IsMake == utcOp \in {"from_date_time", "try_from", "from_unix_duration"}

\* C6: from_date_time, the TryFrom<DateTime> conversions and
\* from_unix_duration accept a date-time exactly when its year is at most
\* 2049, give the UTCTime value error otherwise, and on success hold the
\* date-time they were given.
C6_MaxYear ==
    IsMake =>
        /\ IsOk(utcRes) <=> (Year(utcIn) <= 2049)
        /\ IsOk(utcRes) => (utcRes.val = utcIn /\ utcVal = utcIn)
        /\ IsErr(utcRes) => utcRes = Err("Value(UtcTime)")

C6_Witness ==
    /\ utcOp = "from_date_time"
    /\ Year(utcIn) = 2049
    /\ utcVal = utcIn
    /\ IsOk(utcRes)

\* C7: decoding succeeds only on a content of exactly 13 octets, the last
\* of them 'Z', the twelve before it digits; a content of another length or
\* with another last octet gives the UTCTime value error.
C7_ContentShape ==
    utcOp = "decode" =>
        /\ IsOk(utcRes) =>
              /\ HasContent
              /\ Len(Content) = 13
              /\ Content[13] = 90
              /\ AllDigits(Content)
        /\ (HasContent /\ Len(Content) # 13) => utcRes = Err("Value(UtcTime)")
        /\ (HasContent /\ Len(Content) = 13 /\ Content[13] # 90) =>
              utcRes = Err("Value(UtcTime)")

C7_Witness ==
    /\ utcOp = "decode"
    /\ HasContent
    /\ Len(Content) = 13
    /\ Content[13] # 90
    /\ AllDigits(Content)
    /\ utcRes = Err("Value(UtcTime)")

====
